---- MODULE Spec2Model ----
(***************************************************************************)
(* A model of src/file_system_entry.rs: the extension labeller             *)
(* (get_file_type), the text heuristic (is_text_file), the MIME category   *)
(* resolver (get_mime_category, get_mime) and the two conversions from a   *)
(* path (From<PathBuf> for FileSystemEntry and for FileSystemEntries).     *)
(*                                                                         *)
(* The program keeps no state of its own.  The state of the model is the   *)
(* file system the functions read (fs), the clock (now) and the outcome of *)
(* the last call on that file system together with the calls it made on    *)
(* the way (result).                                                       *)
(*                                                                         *)
(* A path component is the sequence of the pieces of a file name between   *)
(* its dots (<<"a", "zip">> is a.zip), a path is a sequence of components, *)
(* and the root directory is the component RootDir.  A file's content is a *)
(* sequence of bytes, each in 0..255.                                      *)
(***************************************************************************)
EXTENDS Integers, Sequences, FiniteSets, TLC

VARIABLES fs, now, result

vars == <<fs, now, result>>

(***************************************************************************)
(* Option<T>.                                                              *)
(***************************************************************************)
None == [some |-> FALSE]

Some(v) == [some |-> TRUE, val |-> v]

(***************************************************************************)
(* Bounds of the model.                                                    *)
(***************************************************************************)
\* Children a directory may hold.
MaxChildren == 2

\* Bytes a file may hold past the text heuristic's buffer.
MaxTail == 2

\* Length of the short files the text heuristic is tried on.
MaxShort == 2

(***************************************************************************)
(* get_file_type: the static table, in the order of the source.            *)
(***************************************************************************)
Types == <<
    <<"zip", "Zip Archive">>,
    <<"tar", "Tar Archive">>,
    <<"tar.gz", "Tar GZip Archive">>,
    <<"tar.bz2", "Tar BZip2 Archive">>,
    <<"tar.xz", "Tar XZ Archive">>,
    <<"7z", "7-Zip Archive">>,
    <<"rar", "RAR Archive">>,
    <<"jar", "Java Archive">>,
    <<"war", "Web Archive">>,
    <<"ear", "Enterprise Archive">>,
    <<"exe", "Windows Executable">>,
    <<"msi", "Windows Installer">>,
    <<"sh", "Shell Script">>,
    <<"bat", "Batch Script">>,
    <<"cmd", "Command Script">>,
    <<"py", "Python Script">>,
    <<"rb", "Ruby Script">>,
    <<"pl", "Perl Script">>,
    <<"php", "PHP Script">>,
    <<"html", "HTML Document">>,
    <<"htm", "HTML Document">>,
    <<"xhtml", "XHTML Document">>,
    <<"css", "CSS Stylesheet">>,
    <<"js", "JavaScript File">>,
    <<"ts", "TypeScript File">>,
    <<"jsx", "JavaScript XML">>,
    <<"tsx", "TypeScript XML">>,
    <<"json", "JSON File">>,
    <<"xml", "XML Document">>,
    <<"yaml", "YAML Document">>,
    <<"yml", "YAML Document">>,
    <<"toml", "TOML Config">>,
    <<"ini", "INI Config">>,
    <<"cfg", "Configuration File">>,
    <<"conf", "Configuration File">>,
    <<"log", "Log File">>,
    <<"md", "Markdown Document">>,
    <<"txt", "Text File">>,
    <<"csv", "CSV File">>,
    <<"tsv", "TSV File">>,
    <<"pdf", "PDF Document">>,
    <<"doc", "Word Document">>,
    <<"docx", "Word Document">>,
    <<"xls", "Excel Spreadsheet">>,
    <<"xlsx", "Excel Spreadsheet">>,
    <<"ppt", "PowerPoint Presentation">>,
    <<"pptx", "PowerPoint Presentation">>,
    <<"odt", "OpenDocument Text">>,
    <<"ods", "OpenDocument Spreadsheet">>,
    <<"odp", "OpenDocument Presentation">>,
    <<"jpg", "JPEG Image">>,
    <<"jpeg", "JPEG Image">>,
    <<"png", "PNG Image">>,
    <<"gif", "GIF Image">>,
    <<"bmp", "Bitmap Image">>,
    <<"tiff", "TIFF Image">>,
    <<"ico", "Icon Image">>,
    <<"svg", "SVG Image">>,
    <<"mp3", "MP3 Audio">>,
    <<"wav", "WAV Audio">>,
    <<"flac", "FLAC Audio">>,
    <<"ogg", "OGG Audio">>,
    <<"aac", "AAC Audio">>,
    <<"m4a", "M4A Audio">>,
    <<"wma", "WMA Audio">>,
    <<"mp4", "MP4 Video">>,
    <<"m4v", "M4V Video">>,
    <<"mkv", "MKV Video">>,
    <<"avi", "AVI Video">>,
    <<"mov", "MOV Video">>,
    <<"wmv", "WMV Video">>,
    <<"flv", "FLV Video">>,
    <<"webm", "WebM Video">>,
    <<"vob", "DVD Video">>,
    <<"mpg", "MPEG Video">>,
    <<"mpeg", "MPEG Video">>,
    <<"iso", "ISO Disk Image">>,
    <<"dmg", "MacOS Disk Image">>,
    <<"vdi", "VirtualBox Disk Image">>,
    <<"vmdk", "VMware Disk Image">>,
    <<"qcow2", "QEMU Copy-On-Write Disk Image">>,
    <<"qcow", "QEMU Copy-On-Write Disk Image">>,
    <<"ova", "Virtual Appliance">>,
    <<"ovf", "Open Virtualization Format">>,
    <<"img", "Disk Image">>,
    <<"dd", "Disk Dump Image">>,
    <<"vhd", "Virtual Hard Disk">>,
    <<"vhdx", "Virtual Hard Disk">>,
    <<"xpi", "Mozilla Add-on">>,
    <<"crx", "Chrome Extension">>,
    <<"oxt", "OpenOffice Extension">>,
    <<"apk", "Android Package">>,
    <<"ipa", "iOS App Package">>,
    <<"deb", "Debian Package">>,
    <<"rpm", "Red Hat Package">>,
    <<"flatpak", "Flatpak Package">>,
    <<"mcworld", "Minecraft World">>,
    <<"mcpack", "Minecraft Resource Pack">>,
    <<"mcaddon", "Minecraft Add-On">>,
    <<"mctemplate", "Minecraft Template">>,
    <<"mclevel", "Minecraft Level">>,
    <<"schematic", "Minecraft Schematic">>,
    <<"dat", "Minecraft Data File">>,
    <<"ldb", "Minecraft LevelDB Database File">>,
    <<"mca", "Minecraft Anvil Data">>,
    <<"mcr", "Minecraft Region Data">>,
    <<"nbt", "Minecraft Named Binary Tag">>,
    <<"mcfunction", "Minecraft Function File">>,
    <<"mcmeta", "Minecraft Metadata File">>,
    <<"properties", "Minecraft Properties File">>
>>

\* HashMap::get on the table: a later pair for the same key replaces an
\* earlier one, as HashMap::from inserts the pairs in order.
TypesGet(key) ==
    LET hits == {i \in 1..Len(Types) : Types[i][1] = key}
    IN  IF hits = {}
        THEN None
        ELSE Some(Types[CHOOSE i \in hits : \A j \in hits : j <= i][2])

\* A labeller that folds the case of the extension before the lookup.
get_file_type_folding(extension) ==
    LET folded == CASE extension = "ZIP" -> "zip"
                    [] extension = "Zip" -> "zip"
                    [] extension = "MP3" -> "mp3"
                    [] extension = "TAR.GZ" -> "tar.gz"
                    [] OTHER -> extension
        found == TypesGet(folded)
    IN  IF found.some THEN found.val ELSE extension

get_file_type(extension) ==
    LET found == TypesGet(extension)
    IN  IF found.some THEN found.val ELSE extension

(***************************************************************************)
(* Paths (std::path) and OsStr.                                            *)
(***************************************************************************)
RootDir == <<"/">>

\* PathBuf::default(): the empty path.
EmptyPath == <<>>

\* A piece of a file name that is not valid UTF-8 (a raw byte 0xE9).
NonUtf8Pieces == {"caf<E9>"}

\* OsStr::to_string_lossy on one piece: U+FFFD for what is not UTF-8.
LossyPiece(piece) == IF piece = "caf<E9>" THEN "caf<U+FFFD>" ELSE piece

RECURSIVE JoinDots(_)
JoinDots(pieces) ==
    IF Len(pieces) = 0 THEN ""
    ELSE IF Len(pieces) = 1 THEN LossyPiece(pieces[1])
    ELSE LossyPiece(pieces[1]) \o "." \o JoinDots(Tail(pieces))

\* OsStr::to_string_lossy().to_string() on a component.
ToStringLossy(component) == JoinDots(component)

\* Path::file_name: the last component, unless the path ends in the root.
FileName(p) ==
    IF p = EmptyPath \/ p[Len(p)] = RootDir THEN None ELSE Some(p[Len(p)])

\* Path::extension: what follows the last dot of the file name; none when
\* there is no dot, or when the only dot is the first character.
Extension(p) ==
    LET f == FileName(p)
    IN  IF ~f.some THEN None
        ELSE IF Len(f.val) = 1 THEN None
        ELSE IF Len(f.val) = 2 /\ f.val[1] = "" THEN None
        ELSE Some(f.val[Len(f.val)])

\* Path::parent: none for the empty path and for a path ending in the root.
Parent(p) ==
    IF p = EmptyPath \/ p[Len(p)] = RootDir
    THEN None
    ELSE Some(SubSeq(p, 1, Len(p) - 1))

\* DirEntry::path: the directory's path joined with the entry's file name.
DirEntryPath(dir, name) == Append(dir, name)

(***************************************************************************)
(* mime_guess::from_path(path).first(): the extension, when it is UTF-8,   *)
(* looked up without regard to case.  MimeTypes is a sample of the crate's *)
(* table with every top-level type get_mime_category tells apart.          *)
(***************************************************************************)
MimeTypes == <<
    <<"txt", "text", "plain">>,
    <<"jpg", "image", "jpeg">>,
    <<"mp3", "audio", "mpeg">>,
    <<"mp4", "video", "mp4">>,
    <<"zip", "application", "zip">>,
    <<"json", "application", "json">>,
    <<"gz", "application", "gzip">>,
    <<"eml", "message", "rfc822">>
>>

AsciiLower(s) ==
    CASE s = "MP3" -> "mp3"
      [] s = "ZIP" -> "zip"
      [] s = "TXT" -> "txt"
      [] OTHER -> s

MimeGuessFirst(p) ==
    LET ext == Extension(p)
    IN  IF ~ext.some \/ ext.val \in NonUtf8Pieces
        THEN None
        ELSE LET hits == {i \in 1..Len(MimeTypes) :
                            MimeTypes[i][1] = AsciiLower(ext.val)}
             IN  IF hits = {}
                 THEN None
                 ELSE LET m == MimeTypes[CHOOSE i \in hits : TRUE]
                      IN  Some([type |-> m[2], subtype |-> m[3]])

\* Mime::to_string.
MimeToString(m) == m.type \o "/" \o m.subtype

(***************************************************************************)
(* The file system.  fs maps each path that has a directory entry to its   *)
(* node: a regular file (its bytes), a directory (the entries a read of it *)
(* yields, in order) or a symbolic link whose target is gone.              *)
(***************************************************************************)
Ok(v) == [ok |-> TRUE, val |-> v]

Err == [ok |-> FALSE]

\* fs::metadata follows symbolic links: it fails for a path that is not
\* there and for a link without a target.
Metadata(f, p) ==
    IF p \notin DOMAIN f THEN Err
    ELSE IF f[p].kind = "dangling" THEN Err
    ELSE Ok([is_dir |-> f[p].kind = "dir",
             len |-> IF f[p].kind = "file" THEN Len(f[p].bytes) ELSE f[p].len,
             created |-> f[p].created,
             modified |-> f[p].modified])

\* Path::exists: fs::metadata(path).is_ok().
Exists(f, p) == Metadata(f, p).ok

\* Path::is_dir: the metadata is there and says directory.
IsDir(f, p) == Metadata(f, p).ok /\ Metadata(f, p).val.is_dir

\* File::open.
FileOpen(f, p) ==
    IF ~Metadata(f, p).ok THEN Err
    ELSE IF ~f[p].openOk THEN Err
    ELSE Ok(f[p])

\* One File::read into a buffer of `size` zero bytes, from the start of a
\* regular file: everything up to the end of the file or of the buffer.
\* A read of a directory fails.
FileRead(file, size) ==
    IF file.kind # "file" \/ ~file.readOk THEN Err
    ELSE LET n == IF Len(file.bytes) < size THEN Len(file.bytes) ELSE size
         IN  Ok([bytes_read |-> n,
                 buffer |-> [i \in 1..size |->
                               IF i <= n THEN file.bytes[i] ELSE 0]])

\* fs::read_dir: the entries of a directory that may be opened.
ReadDir(f, p) ==
    IF ~Metadata(f, p).ok THEN Err
    ELSE IF f[p].kind # "dir" \/ ~f[p].openOk THEN Err
    ELSE Ok(f[p].entries)

(***************************************************************************)
(* is_text_file.                                                           *)
(***************************************************************************)
BUFFER_SIZE == 1024

TextByte(byte) ==
    \/ byte = 9
    \/ byte = 10
    \/ byte = 13
    \/ (32 <= byte /\ byte <= 126)

\* A heuristic that scans the whole buffer, not only what was read.
is_text_file_whole_buffer(f, file_path) ==
    LET opened == FileOpen(f, file_path)
    IN  IF ~opened.ok THEN FALSE
        ELSE LET rd == FileRead(opened.val, BUFFER_SIZE)
             IN  IF ~rd.ok THEN FALSE
                 ELSE ~\E i \in 1..BUFFER_SIZE : ~TextByte(rd.val.buffer[i])

\* The loop returns false at the first byte of buffer[..bytes_read] that is
\* not a text byte, and true when it finds none.
is_text_file(f, file_path) ==
    LET opened == FileOpen(f, file_path)
    IN  IF ~opened.ok THEN FALSE
        ELSE LET rd == FileRead(opened.val, BUFFER_SIZE)
             IN  IF ~rd.ok THEN FALSE
                 ELSE ~\E i \in 1..rd.val.bytes_read :
                          ~TextByte(rd.val.buffer[i])

(***************************************************************************)
(* A call returns its value (val) and the calls it made on the way         *)
(* (calls), in order, each with the path it was made on.                   *)
(***************************************************************************)
Call(fn, p) == [fn |-> fn, path |-> p]

Ret(v, calls) == [val |-> v, calls |-> calls]

(***************************************************************************)
(* get_mime_category.                                                      *)
(***************************************************************************)
\* The match on the guess's top-level type.
MatchMimeType(mime_type) ==
    CASE mime_type = "text" -> "TEXT"
      [] mime_type = "image" -> "IMAGE"
      [] mime_type = "audio" -> "AUDIO"
      [] mime_type = "video" -> "VIDEO"
      [] mime_type = "application" -> "ARCHIVE"
      [] OTHER -> "UNKNOWN"

\* A resolver that sniffs the content first and asks for a guess after.
get_mime_category_sniff_first(f, path) ==
    IF ~Exists(f, path) THEN Ret("UNKNOWN", <<>>)
    ELSE IF IsDir(f, path) THEN Ret("UNKNOWN", <<>>)
    ELSE IF is_text_file(f, path)
         THEN Ret("TEXT", <<Call("is_text_file", path)>>)
         ELSE LET mime == MimeGuessFirst(path)
              IN  Ret(IF mime.some THEN MatchMimeType(mime.val.type)
                                   ELSE "UNKNOWN",
                      <<Call("is_text_file", path),
                        Call("mime_guess", path)>>)

\* A resolver without the two checks on the path.
get_mime_category_unchecked(f, path) ==
    LET mime == MimeGuessFirst(path)
    IN  IF mime.some
        THEN Ret(MatchMimeType(mime.val.type), <<Call("mime_guess", path)>>)
        ELSE Ret(IF is_text_file(f, path) THEN "TEXT" ELSE "UNKNOWN",
                 <<Call("mime_guess", path), Call("is_text_file", path)>>)

\* A resolver whose fallback takes what is not text for an archive.
get_mime_category_archive_fallback(f, path) ==
    IF ~Exists(f, path) THEN Ret("UNKNOWN", <<>>)
    ELSE IF IsDir(f, path) THEN Ret("UNKNOWN", <<>>)
    ELSE LET mime == MimeGuessFirst(path)
         IN  IF mime.some
             THEN Ret(MatchMimeType(mime.val.type),
                      <<Call("mime_guess", path)>>)
             ELSE Ret(IF is_text_file(f, path) THEN "TEXT" ELSE "ARCHIVE",
                      <<Call("mime_guess", path),
                        Call("is_text_file", path)>>)

get_mime_category(f, path) ==
    IF ~Exists(f, path) THEN Ret("UNKNOWN", <<>>)
    ELSE IF IsDir(f, path) THEN Ret("UNKNOWN", <<>>)
    ELSE LET mime == MimeGuessFirst(path)
         IN  IF mime.some
             THEN Ret(MatchMimeType(mime.val.type),
                      <<Call("mime_guess", path)>>)
             ELSE Ret(IF is_text_file(f, path) THEN "TEXT" ELSE "UNKNOWN",
                      <<Call("mime_guess", path),
                        Call("is_text_file", path)>>)

(***************************************************************************)
(* get_mime.                                                               *)
(***************************************************************************)
get_mime(path) ==
    LET m == MimeGuessFirst(path)
    IN  Ret(IF m.some THEN Some(MimeToString(m.val)) ELSE None,
            <<Call("mime_guess", path)>>)

(***************************************************************************)
(* Default for FileSystemEntry and for FileSystemEntries.                  *)
(***************************************************************************)
UNIX_EPOCH == 0

\* Both timestamps are SystemTime::now(), t.
FileSystemEntry_default(t) ==
    [name |-> "", path |-> EmptyPath, is_dir |-> FALSE, size |-> 0,
     type |-> "", mime |-> None, category |-> "TEXT",
     created |-> t, last_modified |-> t]

FileSystemEntries_default == [parent |-> None, entries |-> <<>>]

(***************************************************************************)
(* From<PathBuf> for FileSystemEntry.                                      *)
(***************************************************************************)
\* A conversion that reports no size for a directory.
FileSystemEntry_from_zero_dir_size(f, t, value) ==
    LET md == Metadata(f, value)
    IN  IF md.ok
        THEN LET file_name == FileName(value)
                 extension == Extension(value)
                 mime == get_mime(value)
                 category == get_mime_category(f, value)
             IN  Ret([name |-> IF file_name.some
                               THEN ToStringLossy(file_name.val) ELSE "",
                      path |-> value,
                      is_dir |-> md.val.is_dir,
                      size |-> IF md.val.is_dir THEN 0 ELSE md.val.len,
                      type |-> get_file_type(IF extension.some
                                             THEN LossyPiece(extension.val)
                                             ELSE ""),
                      mime |-> mime.val,
                      category |-> category.val,
                      created |-> IF md.val.created.some
                                  THEN md.val.created.val ELSE UNIX_EPOCH,
                      last_modified |-> IF md.val.modified.some
                                        THEN md.val.modified.val
                                        ELSE UNIX_EPOCH],
                     <<Call("metadata", value), Call("get_file_type", value),
                       Call("get_mime", value)>> \o mime.calls
                     \o <<Call("get_mime_category", value)>>
                     \o category.calls)
        ELSE Ret(FileSystemEntry_default(t), <<Call("metadata", value)>>)

\* A conversion that classifies the path before it looks at the metadata.
FileSystemEntry_from_eager(f, t, value) ==
    LET md == Metadata(f, value)
        mime == get_mime(value)
        category == get_mime_category(f, value)
        calls == <<Call("metadata", value), Call("get_file_type", value),
                   Call("get_mime", value)>> \o mime.calls
                 \o <<Call("get_mime_category", value)>> \o category.calls
    IN  IF md.ok
        THEN LET file_name == FileName(value)
                 extension == Extension(value)
             IN  Ret([name |-> IF file_name.some
                               THEN ToStringLossy(file_name.val) ELSE "",
                      path |-> value,
                      is_dir |-> md.val.is_dir,
                      size |-> md.val.len,
                      type |-> get_file_type(IF extension.some
                                             THEN LossyPiece(extension.val)
                                             ELSE ""),
                      mime |-> mime.val,
                      category |-> category.val,
                      created |-> IF md.val.created.some
                                  THEN md.val.created.val ELSE UNIX_EPOCH,
                      last_modified |-> IF md.val.modified.some
                                        THEN md.val.modified.val
                                        ELSE UNIX_EPOCH],
                     calls)
        ELSE Ret([FileSystemEntry_default(t) EXCEPT !.category = category.val],
                 calls)

FileSystemEntry_from(f, t, value) ==
    LET md == Metadata(f, value)
    IN  IF md.ok
        THEN LET file_name == FileName(value)
                 extension == Extension(value)
                 mime == get_mime(value)
                 category == get_mime_category(f, value)
             IN  Ret([name |-> IF file_name.some
                               THEN ToStringLossy(file_name.val) ELSE "",
                      path |-> value,
                      is_dir |-> md.val.is_dir,
                      size |-> md.val.len,
                      type |-> get_file_type(IF extension.some
                                             THEN LossyPiece(extension.val)
                                             ELSE ""),
                      mime |-> mime.val,
                      category |-> category.val,
                      created |-> IF md.val.created.some
                                  THEN md.val.created.val ELSE UNIX_EPOCH,
                      last_modified |-> IF md.val.modified.some
                                        THEN md.val.modified.val
                                        ELSE UNIX_EPOCH],
                     <<Call("metadata", value), Call("get_file_type", value),
                       Call("get_mime", value)>> \o mime.calls
                     \o <<Call("get_mime_category", value)>>
                     \o category.calls)
        ELSE Ret(FileSystemEntry_default(t), <<Call("metadata", value)>>)

(***************************************************************************)
(* From<PathBuf> for FileSystemEntries.                                    *)
(***************************************************************************)
RECURSIVE ConcatCalls(_)
ConcatCalls(rets) ==
    IF Len(rets) = 0 THEN <<>>
    ELSE Head(rets).calls \o ConcatCalls(Tail(rets))

\* Iterator::flatten on the directory read: the entries that are Ok.
Flatten(directory_entries) ==
    SelectSeq(directory_entries, LAMBDA entry : entry.ok)

\* The loop: one FileSystemEntry per entry, pushed in the order read.
BuildEntries(f, t, value, kept) ==
    [i \in 1..Len(kept) |->
        FileSystemEntry_from(f, t, DirEntryPath(value, kept[i].name))]

\* A listing that gives up at the first entry the read cannot deliver.
FileSystemEntries_from_abort(f, t, value) ==
    LET rd == ReadDir(f, value)
    IN  IF rd.ok /\ \A i \in 1..Len(rd.val) : rd.val[i].ok
        THEN LET built == BuildEntries(f, t, value, rd.val)
             IN  Ret([parent |-> Parent(value),
                      entries |-> [i \in 1..Len(built) |-> built[i].val]],
                     <<Call("read_dir", value)>> \o ConcatCalls(built))
        ELSE Ret(FileSystemEntries_default, <<Call("read_dir", value)>>)

\* A listing that also descends into the directories it finds.
FileSystemEntries_from_recursive(f, t, value) ==
    LET rd == ReadDir(f, value)
    IN  IF rd.ok
        THEN LET kept == Flatten(rd.val)
                 built == BuildEntries(f, t, value, kept)
                 inner(i) ==
                     LET sub == ReadDir(f, DirEntryPath(value, kept[i].name))
                     IN  IF sub.ok
                         THEN BuildEntries(f, t,
                                  DirEntryPath(value, kept[i].name),
                                  Flatten(sub.val))
                         ELSE <<>>
                 RECURSIVE walk(_)
                 walk(i) ==
                     IF i > Len(kept) THEN <<>>
                     ELSE <<built[i]>> \o inner(i) \o walk(i + 1)
                 all == walk(1)
             IN  Ret([parent |-> Parent(value),
                      entries |-> [i \in 1..Len(all) |-> all[i].val]],
                     <<Call("read_dir", value)>> \o ConcatCalls(all))
        ELSE Ret(FileSystemEntries_default, <<Call("read_dir", value)>>)

\* A listing that keeps the parent when the directory read fails.
FileSystemEntries_from_keep_parent(f, t, value) ==
    LET rd == ReadDir(f, value)
    IN  IF rd.ok
        THEN LET kept == Flatten(rd.val)
                 built == BuildEntries(f, t, value, kept)
             IN  Ret([parent |-> Parent(value),
                      entries |-> [i \in 1..Len(built) |-> built[i].val]],
                     <<Call("read_dir", value)>> \o ConcatCalls(built))
        ELSE Ret([parent |-> Parent(value), entries |-> <<>>],
                 <<Call("read_dir", value)>>)

FileSystemEntries_from(f, t, value) ==
    LET rd == ReadDir(f, value)
    IN  IF rd.ok
        THEN LET kept == Flatten(rd.val)
                 built == BuildEntries(f, t, value, kept)
             IN  Ret([parent |-> Parent(value),
                      entries |-> [i \in 1..Len(built) |-> built[i].val]],
                     <<Call("read_dir", value)>> \o ConcatCalls(built))
        ELSE Ret(FileSystemEntries_default, <<Call("read_dir", value)>>)

(***************************************************************************)
(* The nodes of the file system.                                           *)
(***************************************************************************)
FileNode(bytes, openOk, readOk, created, modified) ==
    [kind |-> "file", bytes |-> bytes, openOk |-> openOk, readOk |-> readOk,
     len |-> 0, entries |-> <<>>, created |-> created, modified |-> modified]

\* len is what the platform reports as the size of the directory itself.
DirNode(entries, openOk, len, created, modified) ==
    [kind |-> "dir", bytes |-> <<>>, openOk |-> openOk, readOk |-> FALSE,
     len |-> len, entries |-> entries, created |-> created,
     modified |-> modified]

DanglingNode ==
    [kind |-> "dangling", bytes |-> <<>>, openOk |-> FALSE, readOk |-> FALSE,
     len |-> 0, entries |-> <<>>, created |-> None, modified |-> None]

\* What a directory read yields for one entry: the entry, or an error.
DirEntryOk(name) == [ok |-> TRUE, name |-> name]

DirEntryErr == [ok |-> FALSE, name |-> <<>>]

\* The directory the calls are tried in, /srv.
Base == <<RootDir, <<"srv">>>>

BaseFs(entries) ==
    (<<RootDir>> :> DirNode(<<DirEntryOk(<<"srv">>)>>, TRUE, 4096,
                            None, Some(1)))
    @@ (Base :> DirNode(entries, TRUE, 4096, None, Some(1)))

\* Sample contents: ASCII text, and a ZIP header with a NUL byte in it.
TextBytes == <<104, 105, 10>>

BinaryBytes == <<80, 75, 3, 0>>

(***************************************************************************)
(* The calls.  Each leaves in result what it was called on, what it        *)
(* returned and the calls it made.                                         *)
(***************************************************************************)
NoResult == [op |-> "none", arg |-> EmptyPath, val |-> FALSE, calls |-> <<>>]

\* A path with no node, whose extension has a MIME guess.
MissingPath == Append(Base, <<"missing", "zip">>)

\* The paths a call is tried on: every path of the file system, one that
\* does not exist and the empty path.
Inputs == DOMAIN fs \cup {MissingPath, EmptyPath}

CallGetFileType(extension) ==
    /\ result' = [op |-> "get_file_type", arg |-> extension,
                  val |-> get_file_type(extension), calls |-> <<>>]
    /\ UNCHANGED <<fs, now>>

CallIsTextFile(p) ==
    /\ result' = [op |-> "is_text_file", arg |-> p,
                  val |-> is_text_file(fs, p), calls |-> <<>>]
    /\ UNCHANGED <<fs, now>>

CallGetMimeCategory(p) ==
    /\ result' = [op |-> "get_mime_category", arg |-> p,
                  val |-> get_mime_category(fs, p).val,
                  calls |-> get_mime_category(fs, p).calls]
    /\ UNCHANGED <<fs, now>>

CallGetMime(p) ==
    /\ result' = [op |-> "get_mime", arg |-> p,
                  val |-> get_mime(p).val, calls |-> get_mime(p).calls]
    /\ UNCHANGED <<fs, now>>

CallFileSystemEntryFrom(p) ==
    /\ result' = [op |-> "FileSystemEntry::from", arg |-> p,
                  val |-> FileSystemEntry_from(fs, now, p).val,
                  calls |-> FileSystemEntry_from(fs, now, p).calls]
    /\ UNCHANGED <<fs, now>>

CallFileSystemEntriesFrom(p) ==
    /\ result' = [op |-> "FileSystemEntries::from", arg |-> p,
                  val |-> FileSystemEntries_from(fs, now, p).val,
                  calls |-> FileSystemEntries_from(fs, now, p).calls]
    /\ UNCHANGED <<fs, now>>

(***************************************************************************)
(* The file system changing between calls: a new child of Base, appended   *)
(* to what a read of Base yields.  result describes a call on the file     *)
(* system as it is, so a change of the file system clears it.              *)
(***************************************************************************)
\* The names the children of Base are drawn from.
ListNames == {<<"notes">>, <<"a", "zip">>, <<"d", "txt">>, <<"caf<E9>">>}

\* The one child a populated subdirectory holds.
InnerName == <<"inner", "txt">>

HasRoom == Len(fs[Base].entries) < MaxChildren

IsFree(name) == Append(Base, name) \notin DOMAIN fs

AddChild(name, node) ==
    (Append(Base, name) :> node)
    @@ [fs EXCEPT ![Base].entries = Append(@, DirEntryOk(name))]

CreateFile(name, bytes) ==
    /\ HasRoom /\ IsFree(name)
    /\ fs' = AddChild(name, FileNode(bytes, TRUE, TRUE, Some(now), Some(now)))
    /\ now' = now + 1
    /\ result' = NoResult

\* mkdir, and for a populated directory a file created inside it.
CreateDir(name, openOk, populated) ==
    /\ HasRoom /\ IsFree(name)
    /\ fs' = IF populated
             THEN (Append(Append(Base, name), InnerName) :>
                      FileNode(TextBytes, TRUE, TRUE, Some(now), Some(now)))
                  @@ AddChild(name, DirNode(<<DirEntryOk(InnerName)>>, openOk,
                                            4096, Some(now), Some(now)))
             ELSE AddChild(name, DirNode(<<>>, openOk, 4096,
                                         Some(now), Some(now)))
    /\ now' = now + 1
    /\ result' = NoResult

\* A symbolic link to a target that is not there.
CreateDanglingLink(name) ==
    /\ HasRoom /\ IsFree(name)
    /\ fs' = AddChild(name, DanglingNode)
    /\ now' = now + 1
    /\ result' = NoResult

\* An entry of Base that a read of the directory fails to deliver.
CorruptDirEntry ==
    /\ HasRoom
    /\ fs' = [fs EXCEPT ![Base].entries = Append(@, DirEntryErr)]
    /\ now' = now + 1
    /\ result' = NoResult

(***************************************************************************)
(* Spec: directories are listed while Base fills up.                       *)
(***************************************************************************)
Init ==
    /\ fs = BaseFs(<<>>)
    /\ now = 2
    /\ result = NoResult

Next ==
    \/ \E name \in ListNames, bytes \in {TextBytes, BinaryBytes} :
          CreateFile(name, bytes)
    \/ \E name \in ListNames, openOk \in BOOLEAN, populated \in BOOLEAN :
          (openOk \/ ~populated) /\ CreateDir(name, openOk, populated)
    \/ \E name \in ListNames : CreateDanglingLink(name)
    \/ CorruptDirEntry
    \/ \E p \in Inputs : CallFileSystemEntriesFrom(p)

Spec == Init /\ [][Next]_vars

(***************************************************************************)
(* SpecEntry: the calls on one path, for every kind of child of Base.      *)
(***************************************************************************)
EntryNames ==
    {<<"a", "zip">>, <<"notes">>, <<"pic", "jpg">>, <<"d", "txt">>,
     <<"song", "MP3">>, <<"mail", "eml">>, <<"v", "mp4">>, <<"", "bashrc">>,
     <<"blob", "xyz123">>, <<"backup", "tar", "gz">>, <<"caf<E9>">>,
     <<"world", "caf<E9>">>}

EntryNodes ==
    {FileNode(bytes, TRUE, TRUE, created, modified) :
        bytes \in {<<>>, TextBytes, BinaryBytes},
        created \in {None, Some(1)}, modified \in {None, Some(1)}}
    \cup {FileNode(TextBytes, openOk, ~openOk, None, Some(1)) :
            openOk \in BOOLEAN}
    \cup {DirNode(<<>>, openOk, len, Some(1), Some(1)) :
            openOk \in BOOLEAN, len \in {0, 4096}}
    \cup {DanglingNode}

InitEntry ==
    /\ \E name \in EntryNames, node \in EntryNodes :
          fs = (Append(Base, name) :> node) @@ BaseFs(<<DirEntryOk(name)>>)
    /\ now = 2
    /\ result = NoResult

NextEntry ==
    \/ \E p \in Inputs : CallIsTextFile(p)
    \/ \E p \in Inputs : CallGetMime(p)
    \/ \E p \in Inputs : CallGetMimeCategory(p)
    \/ \E p \in Inputs : CallFileSystemEntryFrom(p)

SpecEntry == InitEntry /\ [][NextEntry]_vars

(***************************************************************************)
(* SpecText: is_text_file on files of every length around the buffer's,    *)
(* made of the letter A (65) but for one byte, of any value, at one place.  *)
(***************************************************************************)
TextLengths ==
    (0..MaxShort) \cup ((BUFFER_SIZE - 1)..(BUFFER_SIZE + MaxTail))

OddPlaces(length) ==
    {1, length, BUFFER_SIZE, BUFFER_SIZE + 1} \cap (1..length)

Body(length, place, byte) ==
    [i \in 1..length |-> IF i = place THEN byte ELSE 65]

InitText ==
    /\ \E length \in TextLengths :
          \/ /\ length = 0
             /\ fs = (Append(Base, <<"notes">>) :>
                         FileNode(<<>>, TRUE, TRUE, None, Some(1)))
                     @@ BaseFs(<<DirEntryOk(<<"notes">>)>>)
          \/ \E place \in OddPlaces(length), byte \in 0..255 :
                fs = (Append(Base, <<"notes">>) :>
                         FileNode(Body(length, place, byte), TRUE, TRUE,
                                  None, Some(1)))
                     @@ BaseFs(<<DirEntryOk(<<"notes">>)>>)
    /\ now = 2
    /\ result = NoResult

NextText == \E p \in Inputs : CallIsTextFile(p)

SpecText == InitText /\ [][NextText]_vars

(***************************************************************************)
(* SpecLabel: get_file_type on every key of the table and on strings that  *)
(* are no key.                                                             *)
(***************************************************************************)
TypeKeys == {Types[i][1] : i \in 1..Len(Types)}

OtherExtensions == {"", "ZIP", "Zip", "MP3", "TAR.GZ", "gz", "xyz123"}

InitLabel ==
    /\ fs = BaseFs(<<>>)
    /\ now = 2
    /\ result = NoResult

NextLabel == \E extension \in TypeKeys \cup OtherExtensions :
                CallGetFileType(extension)

SpecLabel == InitLabel /\ [][NextLabel]_vars

(***************************************************************************)
(* What the properties below are stated in.                                *)
(***************************************************************************)
Called(fn) == \E i \in 1..Len(result.calls) : result.calls[i].fn = fn

\* The path is a regular file of the file system.
IsRegularFile(p) == p \in DOMAIN fs /\ fs[p].kind = "file"

\* The path is a directory of the file system.
IsDirectory(p) == p \in DOMAIN fs /\ fs[p].kind = "dir"

\* A metadata query on the path fails: nothing is there, or a link to
\* nothing.
NoMetadata(p) == p \notin DOMAIN fs \/ fs[p].kind = "dangling"

\* The category the spec gives each top-level MIME type.
TopLevelCategory ==
    [text |-> "TEXT", image |-> "IMAGE", audio |-> "AUDIO",
     video |-> "VIDEO", application |-> "ARCHIVE"]

CategoryOfGuess(guess) ==
    IF guess.type \in DOMAIN TopLevelCategory
    THEN TopLevelCategory[guess.type]
    ELSE "UNKNOWN"

\* The bytes the spec counts as text.
TextByteSet == {9, 10, 13} \cup (32..126)

\* C1: get_mime_category on an existing regular file for which there is a
\* MIME guess returns the category of the guess's top-level type, whatever
\* the bytes of the file, and does not call is_text_file.
C1_GuessDecidesCategory ==
    (/\ result.op = "get_mime_category"
     /\ IsRegularFile(result.arg)
     /\ MimeGuessFirst(result.arg).some)
    => /\ result.val = CategoryOfGuess(MimeGuessFirst(result.arg).val)
       /\ ~Called("is_text_file")

\* A file of ASCII text under a name whose guess is application/zip has
\* been classified ARCHIVE.
C1_Witness ==
    /\ result.op = "get_mime_category"
    /\ IsRegularFile(result.arg)
    /\ fs[result.arg].bytes = TextBytes
    /\ fs[result.arg].openOk /\ fs[result.arg].readOk
    /\ MimeGuessFirst(result.arg) = Some([type |-> "application",
                                          subtype |-> "zip"])
    /\ result.val = "ARCHIVE"

\* C2: get_mime_category returns UNKNOWN for a path that does not exist and
\* for a directory, whatever its extension and whether or not there is a
\* MIME guess for it, and reaches neither the guess nor is_text_file.
C2_MissingOrDirectoryIsUnknown ==
    (/\ result.op = "get_mime_category"
     /\ (NoMetadata(result.arg) \/ IsDirectory(result.arg)))
    => /\ result.val = "UNKNOWN"
       /\ ~Called("mime_guess")
       /\ ~Called("is_text_file")

\* A directory under a name with a MIME guess (d.txt) has been classified.
C2_Witness ==
    /\ result.op = "get_mime_category"
    /\ IsDirectory(result.arg)
    /\ MimeGuessFirst(result.arg).some
    /\ result.val = "UNKNOWN"

\* C3: is_text_file on a file that can be opened and read is true exactly
\* when each of the file's first min(length, 1024) bytes is 0x09, 0x0A,
\* 0x0D or in 0x20..0x7E; so a byte at offset 1024 or later has no effect
\* and an empty file gives true.
C3_TextIffPrefixIsText ==
    (/\ result.op = "is_text_file"
     /\ IsRegularFile(result.arg)
     /\ fs[result.arg].openOk /\ fs[result.arg].readOk)
    => LET bytes == fs[result.arg].bytes
           prefix == IF Len(bytes) < 1024 THEN Len(bytes) ELSE 1024
       IN  result.val = (\A i \in 1..prefix : bytes[i] \in TextByteSet)

\* A file longer than 1024 bytes whose only byte that is not text lies at
\* offset 1024 has been found to be text.
C3_Witness ==
    /\ result.op = "is_text_file"
    /\ IsRegularFile(result.arg)
    /\ Len(fs[result.arg].bytes) > 1024
    /\ fs[result.arg].bytes[1025] = 0
    /\ result.val = TRUE

\* C4: get_mime_category on an existing regular file for which there is no
\* MIME guess returns TEXT when is_text_file is true and UNKNOWN when it is
\* not; for a file that cannot be opened or read is_text_file is false and
\* the category is UNKNOWN.
C4_FallbackFollowsTextHeuristic ==
    (/\ result.op = "get_mime_category"
     /\ IsRegularFile(result.arg)
     /\ ~MimeGuessFirst(result.arg).some)
    => /\ result.val = IF is_text_file(fs, result.arg)
                       THEN "TEXT" ELSE "UNKNOWN"
       /\ Called("is_text_file")
       /\ (~fs[result.arg].openOk \/ ~fs[result.arg].readOk)
            => (~is_text_file(fs, result.arg) /\ result.val = "UNKNOWN")

\* A file of ASCII text that cannot be opened, under a name without a MIME
\* guess, has been classified UNKNOWN.
C4_Witness ==
    /\ result.op = "get_mime_category"
    /\ IsRegularFile(result.arg)
    /\ ~MimeGuessFirst(result.arg).some
    /\ ~fs[result.arg].openOk
    /\ fs[result.arg].bytes = TextBytes
    /\ result.val = "UNKNOWN"

\* The names of the entries a read of a directory delivers, in order.
RECURSIVE Delivered(_)
Delivered(directory_entries) ==
    IF directory_entries = <<>> THEN <<>>
    ELSE IF Head(directory_entries).ok
         THEN <<Head(directory_entries).name>>
              \o Delivered(Tail(directory_entries))
         ELSE Delivered(Tail(directory_entries))

\* A read of the directory at the path succeeds.
IsReadableDirectory(p) == IsDirectory(p) /\ fs[p].openOk

\* The parent the spec gives a listing: the path without its last
\* component, and none for the root and for the empty path.
ParentOfListed(p) ==
    IF Len(p) = 0 \/ p = <<RootDir>>
    THEN None
    ELSE Some([i \in 1..(Len(p) - 1) |-> p[i]])

\* The placeholder entry of the spec (the timestamps apart).
IsPlaceholder(entry) ==
    /\ entry.name = ""
    /\ entry.path = <<>>
    /\ entry.is_dir = FALSE
    /\ entry.size = 0
    /\ entry.type = ""
    /\ entry.mime = None
    /\ entry.category = "TEXT"

\* C5: FileSystemEntries::from on a directory that can be read returns one
\* entry per child the read delivers, in the order delivered, each what
\* FileSystemEntry::from gives for the child's path; a child the read
\* fails to deliver is skipped without ending the listing; no call is made
\* on a grandchild; parent is the parent of the listed path, and none when
\* the path has none.  An empty directory gives no entries.
C5_ListingIsOneEntryPerDeliveredChild ==
    (/\ result.op = "FileSystemEntries::from"
     /\ IsReadableDirectory(result.arg))
    => LET names == Delivered(fs[result.arg].entries)
       IN  /\ Len(result.val.entries) = Len(names)
           /\ \A k \in 1..Len(names) :
                 result.val.entries[k] =
                    FileSystemEntry_from(fs, now,
                                         result.arg \o <<names[k]>>).val
           /\ \A i \in 1..Len(result.calls) :
                 Len(result.calls[i].path) <= Len(result.arg) + 1
           /\ result.val.parent = ParentOfListed(result.arg)

\* Base has been listed when a read of it fails on its first entry and
\* delivers a populated directory as its second: the listing holds the one
\* entry of that directory.
C5_Witness ==
    /\ result.op = "FileSystemEntries::from"
    /\ result.arg = Base
    /\ Len(fs[Base].entries) = 2
    /\ ~fs[Base].entries[1].ok
    /\ fs[Base].entries[2].ok
    /\ IsDirectory(Base \o <<fs[Base].entries[2].name>>)
    /\ fs[Base \o <<fs[Base].entries[2].name>>].entries # <<>>
    /\ Len(result.val.entries) = 1
    /\ result.val.entries[1].is_dir
    /\ result.val.parent = Some(<<RootDir>>)

\* C6 as stated: every element of the entries of a listing of d describes
\* a direct child of d (its path is d joined with one child name, its name
\* is that child's last component), so that no placeholder entry is ever
\* among them.
C6_Original ==
    result.op = "FileSystemEntries::from"
    => \A k \in 1..Len(result.val.entries) :
          /\ \E name \in {fs[result.arg].entries[i].name :
                            i \in 1..Len(fs[result.arg].entries)} :
                /\ result.val.entries[k].path = result.arg \o <<name>>
                /\ result.val.entries[k].name = ToStringLossy(name)
          /\ ~IsPlaceholder(result.val.entries[k])

\* C6 as amended: the k-th element of the entries of a listing of d
\* belongs to the k-th child the read of d delivers; it describes that
\* child (path d joined with the child's name, name the child's last
\* component) when the child's metadata query succeeds, and is the
\* placeholder entry when that query fails.  Only a child the read fails
\* to deliver has no element.
C6_EntriesAreChildrenOrPlaceholders ==
    (/\ result.op = "FileSystemEntries::from"
     /\ IsReadableDirectory(result.arg))
    => LET names == Delivered(fs[result.arg].entries)
       IN  /\ Len(result.val.entries) = Len(names)
           /\ \A k \in 1..Len(names) :
                 LET entry == result.val.entries[k]
                     child == result.arg \o <<names[k]>>
                 IN  IF NoMetadata(child)
                     THEN IsPlaceholder(entry)
                     ELSE /\ entry.path = child
                          /\ entry.name = ToStringLossy(names[k])
                          /\ entry.is_dir = (fs[child].kind = "dir")

\* Base has been listed while it holds a link to nothing: the listing has
\* the placeholder entry for it.
C6_Witness ==
    /\ result.op = "FileSystemEntries::from"
    /\ result.arg = Base
    /\ \E k \in 1..Len(result.val.entries) :
          /\ IsPlaceholder(result.val.entries[k])
          /\ fs[Base \o <<Delivered(fs[Base].entries)[k]>>].kind = "dangling"

\* C7: FileSystemEntry::from on a path whose metadata query fails returns
\* the placeholder entry (empty name and path, not a directory, size 0,
\* empty type, no mime, category TEXT) and calls neither get_file_type,
\* nor the MIME guess, nor get_mime_category.
C7_MetadataFailureGivesPlaceholder ==
    (/\ result.op = "FileSystemEntry::from"
     /\ NoMetadata(result.arg))
    => /\ IsPlaceholder(result.val)
       /\ ~Called("get_file_type")
       /\ ~Called("get_mime")
       /\ ~Called("mime_guess")
       /\ ~Called("get_mime_category")
       /\ ~Called("is_text_file")

\* A link to nothing under a name with an extension has been converted.
C7_Witness ==
    /\ result.op = "FileSystemEntry::from"
    /\ result.arg \in DOMAIN fs
    /\ fs[result.arg].kind = "dangling"
    /\ Extension(result.arg) = Some("jpg")
    /\ IsPlaceholder(result.val)

\* C8: FileSystemEntries::from on a path whose directory read fails (no
\* such path, not a directory, a directory that may not be opened) returns
\* the empty listing: no entries and no parent, also when the path has a
\* parent.
C8_UnreadableDirectoryGivesEmptyListing ==
    (/\ result.op = "FileSystemEntries::from"
     /\ ~IsReadableDirectory(result.arg))
    => /\ result.val.entries = <<>>
       /\ result.val.parent = None

\* A directory of Base that may not be opened has been listed.
C8_Witness ==
    /\ result.op = "FileSystemEntries::from"
    /\ IsDirectory(result.arg)
    /\ ~fs[result.arg].openOk
    /\ Len(result.arg) = 3
    /\ result.val = [parent |-> None, entries |-> <<>>]

\* C9 as stated: an entry FileSystemEntry::from returns has size 0 when it
\* is a directory or when the metadata query failed.
C9_Original ==
    (/\ result.op = "FileSystemEntry::from"
     /\ (result.val.is_dir \/ NoMetadata(result.arg)))
    => result.val.size = 0

\* C9 as amended: an entry FileSystemEntry::from returns has size 0 when
\* the metadata query failed, and otherwise the length the metadata
\* reports, for a directory as for a file.
C9_SizeIsMetadataLength ==
    result.op = "FileSystemEntry::from"
    => IF NoMetadata(result.arg) THEN result.val.size = 0
       ELSE IF fs[result.arg].kind = "dir"
            THEN result.val.is_dir /\ result.val.size = fs[result.arg].len
            ELSE ~result.val.is_dir
                 /\ result.val.size = Len(fs[result.arg].bytes)

\* A directory for which the platform reports a length of 4096 has been
\* converted into an entry of that size.
C9_Witness ==
    /\ result.op = "FileSystemEntry::from"
    /\ IsDirectory(result.arg)
    /\ result.val.is_dir
    /\ result.val.size = 4096

\* C10: get_file_type returns the table's label for a key of the table
\* ("zip" gives "Zip Archive", "mp3" "MP3 Audio", "mcworld" "Minecraft
\* World") and returns any other string unchanged, the empty string and
\* "ZIP" among them.
C10_LabelOrUnchanged ==
    result.op = "get_file_type"
    => /\ \A i \in 1..Len(Types) :
             result.arg = Types[i][1] => result.val = Types[i][2]
       /\ (\A i \in 1..Len(Types) : result.arg # Types[i][1])
             => result.val = result.arg
       /\ result.arg = "zip" => result.val = "Zip Archive"
       /\ result.arg = "mp3" => result.val = "MP3 Audio"
       /\ result.arg = "mcworld" => result.val = "Minecraft World"
       /\ result.arg = "ZIP" => result.val = "ZIP"
       /\ result.arg = "" => result.val = ""

\* get_file_type has been called on "ZIP" and returned it unchanged.
C10_Witness ==
    /\ result.op = "get_file_type"
    /\ result.arg = "ZIP"
    /\ result.val = "ZIP"

====
